---- MODULE Spec2Model ----
(***************************************************************************)
(* A model of app1.py, the PhonePe Pulse dashboard script.                 *)
(*                                                                         *)
(* The script is re-run from top to bottom on every user interaction: it   *)
(* loads nine tables through the memoized load_data, loads the boundary    *)
(* file, and renders the page chosen in the sidebar.  Strings are modelled *)
(* as sequences of one-character strings so that lower(), strip() and the  *)
(* alias replacement act on them the way they do in the code.  A data      *)
(* frame is a sequence of rows (records).                                  *)
(***************************************************************************)
EXTENDS Integers, Sequences, FiniteSets, TLC

VARIABLES
    db,          \* the MySQL tables: table name -> sequence of source rows
    geofile,     \* the boundary file Indian_States.geojson
    engine,      \* st.cache_resource entry of get_db_engine
    cache,       \* st.cache_data entries of load_data: table name -> entry
    queries,     \* table name -> number of pd.read_sql calls made so far
    first,       \* table name -> what the first load_data call returned
    dfs,         \* the module globals agg_tr_df, ... of the running pass
    geojson_data,\* the module global geojson_data of the running pass
    pc,          \* position of the running pass in the script
    ui,          \* the sidebar and selectbox choices of the running pass
    out,         \* the elements the running pass has emitted, in order
    inp,         \* input of a pandas pipeline checked on its own
    frame,       \* the frame that pipeline has reached
    stage        \* position in that pipeline

scriptVars == <<db, geofile, engine, cache, queries, first, dfs, geojson_data, pc, ui, out>>
pipeVars == <<inp, frame, stage>>
vars == <<db, geofile, engine, cache, queries, first, dfs, geojson_data, pc, ui, out,
          inp, frame, stage>>

-----------------------------------------------------------------------------
(* Strings *)

UpperCase == <<"A","B","C","D","E","F","G","H","I","J","K","L","M","N","O","P","Q","R","S","T","U","V","W","X","Y","Z">>
LowerCase == <<"a","b","c","d","e","f","g","h","i","j","k","l","m","n","o","p","q","r","s","t","u","v","w","x","y","z">>

\* The characters str.strip() removes, among those the model uses.
Whitespace == {" ", "\t", "\n"}

\* The characters of the model in code-point order (the order pandas sorts keys by).
AsciiOrder == <<"\t", "\n", " ", "&">> \o UpperCase \o LowerCase

Characters == {AsciiOrder[i] : i \in 1..Len(AsciiOrder)}

\* The code point order of a character.
OrdTable == [c \in Characters |-> CHOOSE i \in 1..Len(AsciiOrder) : AsciiOrder[i] = c]
Ord(c) == OrdTable[c]

\* The lower-case form of a character: of an upper-case letter the letter
\* at the same place of the lower-case alphabet, of any other itself.
LowerTable ==
    [c \in Characters |->
        IF \E i \in 1..26 : UpperCase[i] = c
        THEN LowerCase[CHOOSE i \in 1..26 : UpperCase[i] = c]
        ELSE c]
LowerChar(c) == LowerTable[c]

\* str.lower()
Lower(s) == [i \in 1..Len(s) |-> LowerChar(s[i])]

RECURSIVE LStrip(_)
LStrip(s) == IF s # <<>> /\ Head(s) \in Whitespace THEN LStrip(Tail(s)) ELSE s

RECURSIVE RStrip(_)
RStrip(s) ==
    IF s # <<>> /\ s[Len(s)] \in Whitespace THEN RStrip(SubSeq(s, 1, Len(s) - 1)) ELSE s

\* str.strip()
Strip(s) == RStrip(LStrip(s))

\* Lexicographic order on strings.
RECURSIVE StrLess(_, _)
StrLess(a, b) ==
    IF b = <<>> THEN FALSE
    ELSE IF a = <<>> THEN TRUE
    ELSE IF Head(a) = Head(b) THEN StrLess(Tail(a), Tail(b))
    ELSE Ord(Head(a)) < Ord(Head(b))

AndamanSource == <<"a","n","d","a","m","a","n"," ","a","n","d"," ","n","i","c","o","b","a","r">>
AndamanTarget == <<"a","n","d","a","m","a","n"," ","&"," ","n","i","c","o","b","a","r"," ","i","s","l","a","n","d","s">>
DadraSource == <<"d","a","d","r","a"," ","a","n","d"," ","n","a","g","a","r"," ","h","a","v","e","l","i"," ","a","n","d"," ","d","a","m","a","n"," ","a","n","d"," ","d","i","u">>
DadraTarget == <<"d","a","d","r","a"," ","&"," ","n","a","g","a","r"," ","h","a","v","e","l","i"," ","&"," ","d","a","m","a","n"," ","&"," ","d","i","u">>

\* Series.replace({...}) of load_data: whole-value replacement.
ReplaceAliases(s) ==
    IF s = AndamanSource THEN AndamanTarget
    ELSE IF s = DadraSource THEN DadraTarget
    ELSE s

\* A faulty variant of NormalizeStates: the alias table is consulted before the
\* name is lower-cased and trimmed.
NormalizeStatesAliasFirst(s) == Strip(Lower(ReplaceAliases(s)))

\* df["States"].str.lower().str.strip().replace({...}) on one value.
NormalizeStates(s) == ReplaceAliases(Strip(Lower(s)))

\* feature["properties"]["State_Name"] of load_geojson on one feature, whose
\* NAME_1 is a string (isstr) or is missing or of another type.
GeoStateName(feature) ==
    IF feature.isstr THEN Strip(Lower(feature.NAME_1)) ELSE <<>>

-----------------------------------------------------------------------------
(* Data frames: sequences of rows.  A source row is                        *)
(*   [States, Years, Quarter, Dim, Amount, Count]                          *)
(* where Dim stands for the table's category column (Transaction_type,     *)
(* Brands, District), Amount for its first measure (Transaction_amount,    *)
(* Insurance_amount, RegisteredUsers) and Count for its second             *)
(* (Transaction_count, Insurance_count, AppOpens).                         *)

EmptyFrame == <<>>

\* DataFrame.empty
IsEmpty(df) == Len(df) = 0

RECURSIVE SumAmount(_)
SumAmount(df) == IF df = <<>> THEN 0 ELSE Head(df).Amount + SumAmount(Tail(df))

RECURSIVE SumCount(_)
SumCount(df) == IF df = <<>> THEN 0 ELSE Head(df).Count + SumCount(Tail(df))

RECURSIVE MaxAmount(_)
MaxAmount(df) ==
    IF Len(df) = 1 THEN df[1].Amount
    ELSE LET m == MaxAmount(Tail(df)) IN IF Head(df).Amount >= m THEN Head(df).Amount ELSE m

\* The strings of a finite set in ascending order (groupby sorts its keys).
RECURSIVE SortStrings(_)
SortStrings(S) ==
    IF S = {} THEN <<>>
    ELSE LET m == CHOOSE x \in S : \A y \in S \ {x} : StrLess(x, y)
         IN  <<m>> \o SortStrings(S \ {m})

\* The integers of a finite set in ascending order.
RECURSIVE SortInts(_)
SortInts(S) ==
    IF S = {} THEN <<>>
    ELSE LET m == CHOOSE x \in S : \A y \in S : x <= y
         IN  <<m>> \o SortInts(S \ {m})

StateIs(df, s) == LET Test(r) == r.State = s IN SelectSeq(df, Test)
DimIs(df, d) == LET Test(r) == r.Dim = d IN SelectSeq(df, Test)
QuarterIs(df, q) == LET Test(r) == r.Quarter = q IN SelectSeq(df, Test)
YearIs(df, y) == LET Test(r) == r.Years = y IN SelectSeq(df, Test)

\* A faulty variant of FilterByPeriod: the two conditions joined by | instead of &.
FilterByPeriodOr(df, year, quarter) ==
    LET Test(r) == r.Years = year \/ r.Quarter = quarter IN SelectSeq(df, Test)

\* df[(df["Years"] == year) & (df["Quarter"] == quarter)]
FilterByPeriod(df, year, quarter) ==
    LET Test(r) == r.Years = year /\ r.Quarter = quarter IN SelectSeq(df, Test)

\* A faulty variant of GroupByState: each group keeps its first row's measures
\* (agg "first" instead of "sum").
GroupByStateFirst(df) ==
    LET keys == SortStrings({df[i].State : i \in 1..Len(df)})
    IN  [k \in 1..Len(keys) |->
            [State |-> keys[k],
             Amount |-> StateIs(df, keys[k])[1].Amount,
             Count |-> StateIs(df, keys[k])[1].Count]]

\* df.groupby("State").agg({amount: "sum", count: "sum"}).reset_index()
GroupByState(df) ==
    LET keys == SortStrings({df[i].State : i \in 1..Len(df)})
    IN  [k \in 1..Len(keys) |->
            [State |-> keys[k],
             Amount |-> SumAmount(StateIs(df, keys[k])),
             Count |-> SumCount(StateIs(df, keys[k]))]]

\* df.groupby(dim)[count].sum() with the key as a column
GroupByDim(df) ==
    LET keys == SortStrings({df[i].Dim : i \in 1..Len(df)})
    IN  [k \in 1..Len(keys) |->
            [Dim |-> keys[k], Count |-> SumCount(DimIs(df, keys[k]))]]

Min(a, b) == IF a <= b THEN a ELSE b

\* The row positions 1..Len(df) of S ordered by descending value of column
\* col, equal values in their original order (a stable sort).
RECURSIVE DescendingOrder(_, _, _)
DescendingOrder(S, df, col) ==
    IF S = {} THEN <<>>
    ELSE LET b == CHOOSE i \in S : \A j \in S \ {i} :
                      \/ df[i][col] > df[j][col]
                      \/ df[i][col] = df[j][col] /\ i < j
         IN  <<b>> \o DescendingOrder(S \ {b}, df, col)

\* The same with equal values in reverse original order (keep="last").
RECURSIVE DescendingOrderLast(_, _, _)
DescendingOrderLast(S, df, col) ==
    IF S = {} THEN <<>>
    ELSE LET b == CHOOSE i \in S : \A j \in S \ {i} :
                      \/ df[i][col] > df[j][col]
                      \/ df[i][col] = df[j][col] /\ i > j
         IN  <<b>> \o DescendingOrderLast(S \ {b}, df, col)

\* A faulty variant of NLargest: ties are resolved towards the last occurrences.
NLargestKeepLast(n, df, col) ==
    LET order == DescendingOrderLast(1..Len(df), df, col)
    IN  [k \in 1..Min(n, Len(df)) |-> df[order[k]]]

\* df.nlargest(n, col): the first n rows in descending order of col,
\* keep="first".
NLargest(n, df, col) ==
    LET order == DescendingOrder(1..Len(df), df, col)
    IN  [k \in 1..Min(n, Len(df)) |-> df[order[k]]]

\* The rows of one state of df.groupby(["State", "Quarter"])[amount].sum()
StateQuarterRows(df, s) ==
    LET sub == StateIs(df, s)
        qs == SortInts({sub[i].Quarter : i \in 1..Len(sub)})
    IN  [k \in 1..Len(qs) |->
            [State |-> s, Quarter |-> qs[k], Amount |-> SumAmount(QuarterIs(sub, qs[k]))]]

RECURSIVE ConcatStates(_, _)
ConcatStates(df, states) ==
    IF states = <<>> THEN <<>>
    ELSE StateQuarterRows(df, Head(states)) \o ConcatStates(df, Tail(states))

\* df.groupby(["State", "Quarter"])[amount].sum().reset_index()
GroupByStateQuarter(df) ==
    ConcatStates(df, SortStrings({df[i].State : i \in 1..Len(df)}))

\* A float that is NaN, +/-infinity, or the exact quotient num / den.
NaN == [kind |-> "nan", num |-> 0, den |-> 1]
Infinity == [kind |-> "inf", num |-> 1, den |-> 1]
NegInfinity == [kind |-> "-inf", num |-> -1, den |-> 1]
Quotient(n, d) == [kind |-> "num", num |-> n, den |-> d]

\* curr / prev - 1 in floating point: 0/0 is NaN, x/0 is infinite.
Change(prev, curr) ==
    IF prev = 0
    THEN (IF curr = 0 THEN NaN ELSE IF curr > 0 THEN Infinity ELSE NegInfinity)
    ELSE Quotient(curr - prev, prev)

\* x * 100 in floating point
Times100(x) == IF x.kind = "num" THEN Quotient(x.num * 100, x.den) ELSE x

Last(S) == CHOOSE x \in S : \A y \in S : y <= x

\* A faulty variant of PctChange: the change is taken from the state's first period
\* instead of the immediately preceding one.
PctChangeFromFirst(g) ==
    [i \in 1..Len(g) |->
        LET before == {j \in 1..(i - 1) : g[j].State = g[i].State}
        IN  IF before = {} THEN NaN
            ELSE Change(g[CHOOSE j \in before : \A k \in before : j <= k].Amount,
                        g[i].Amount)]

\* g.groupby("State")[amount].pct_change(): per row, the change from the
\* previous row of the same state; NaN on the first row of each state.
PctChange(g) ==
    [i \in 1..Len(g) |->
        LET before == {j \in 1..(i - 1) : g[j].State = g[i].State}
        IN  IF before = {} THEN NaN
            ELSE Change(g[Last(before)].Amount, g[i].Amount)]

\* growth_data["Growth_Percentage"] = ... pct_change() * 100
WithGrowthPercentage(g) ==
    [i \in 1..Len(g) |->
        [State |-> g[i].State, Quarter |-> g[i].Quarter, Amount |-> g[i].Amount,
         Growth_Percentage |-> Times100(PctChange(g)[i])]]

\* growth_data.dropna(inplace=True)
DropNa(g) ==
    LET Test(r) == r.Growth_Percentage.kind # "nan" IN SelectSeq(g, Test)

\* Lines 375-378: the growth table of the selected year.
GrowthData(df, selected_year) ==
    DropNa(WithGrowthPercentage(GroupByStateQuarter(YearIs(df, selected_year))))

\* The rows of one year of df.groupby(["Years", "Quarter"])[amount].sum()
YearQuarterRows(df, y) ==
    LET sub == YearIs(df, y)
        qs == SortInts({sub[i].Quarter : i \in 1..Len(sub)})
    IN  [k \in 1..Len(qs) |->
            [Years |-> y, Quarter |-> qs[k], Amount |-> SumAmount(QuarterIs(sub, qs[k]))]]

RECURSIVE ConcatYears(_, _)
ConcatYears(df, years) ==
    IF years = <<>> THEN <<>>
    ELSE YearQuarterRows(df, Head(years)) \o ConcatYears(df, Tail(years))

\* df.groupby(["Years", "Quarter"])[amount].sum().reset_index()
GroupByPeriod(df) ==
    ConcatYears(df, SortInts({df[i].Years : i \in 1..Len(df)}))

\* df.groupby("Quarter")[amount].sum().reset_index()
GroupByQuarter(df) ==
    LET qs == SortInts({df[i].Quarter : i \in 1..Len(df)})
    IN  [k \in 1..Len(qs) |->
            [Quarter |-> qs[k], Amount |-> SumAmount(QuarterIs(df, qs[k]))]]

-----------------------------------------------------------------------------
(* load_data and load_geojson on what they read *)

\* Lines 53-58 of load_data: the States column normalized and renamed.
NormalizeFrame(rows) ==
    [i \in 1..Len(rows) |->
        [State |-> NormalizeStates(rows[i].States),
         Years |-> rows[i].Years, Quarter |-> rows[i].Quarter, Dim |-> rows[i].Dim,
         Amount |-> rows[i].Amount, Count |-> rows[i].Count]]

\* Lines 29-36 of load_geojson: every feature gets its State_Name.
StandardizeFeatures(features) ==
    [i \in 1..Len(features) |->
        [isstr |-> features[i].isstr, NAME_1 |-> features[i].NAME_1,
         State_Name |-> GeoStateName(features[i])]]

-----------------------------------------------------------------------------
(* Pipelines checked on their own: the script is not running, and the      *)
(* script is idle while a pipeline runs.                                   *)

ScriptIdle ==
    /\ db = <<>> /\ geofile = <<>> /\ engine = "unset" /\ cache = <<>> /\ queries = <<>> /\ first = <<>>
    /\ dfs = <<>> /\ geojson_data = <<>> /\ pc = "idle"
    /\ ui = <<>> /\ out = <<>>

PipeIdle == inp = <<>> /\ frame = <<>> /\ stage = "idle"

-----------------------------------------------------------------------------
(* Region keys: a table and a boundary file carrying the same region names *)
(* go through load_data (53-58), load_geojson (29-36) and the per-state    *)
(* aggregate of the Home heatmap (115-118).                                *)

MaxNameLen == 3

NameAlphabet == {"K", "k", " "}

BoundedNames == UNION {[1..n -> NameAlphabet] : n \in 0..MaxNameLen}

AndamanAndNicobar == <<"A","n","d","a","m","a","n"," ","a","n","d"," ","N","i","c","o","b","a","r">>
Karnataka == <<"K","a","r","n","a","t","a","k","a">>

SpecialNames ==
    { AndamanAndNicobar, Karnataka, AndamanSource, AndamanTarget, DadraSource,
      <<" ">> \o AndamanSource, Lower(Karnataka) \o <<"\t">>,
      <<"D","a","d","r","a"," ","a","n","d"," ","N","a","g","a","r"," ","H","a","v","e","l","i"," ","a","n","d"," ","D","a","m","a","n"," ","a","n","d"," ","D","i","u","\n">> }

RegionNames == BoundedNames \cup SpecialNames

SourceRow(name, amount) ==
    [States |-> name, Years |-> 2023, Quarter |-> 1, Dim |-> <<"P">>,
     Amount |-> amount, Count |-> 1]

InitNorm ==
    /\ ScriptIdle
    /\ \E n1, n2 \in RegionNames :
          inp = [table |-> <<SourceRow(n1, 500), SourceRow(n2, 1500)>>,
                 features |-> <<[isstr |-> TRUE, NAME_1 |-> n1],
                                [isstr |-> TRUE, NAME_1 |-> n2]>>]
    /\ frame = [df |-> <<>>, features |-> <<>>, grouped |-> <<>>]
    /\ stage = "start"

NormLoadData ==
    /\ stage = "start"
    /\ frame' = [frame EXCEPT !.df = NormalizeFrame(inp.table)]
    /\ stage' = "loaded"
    /\ UNCHANGED <<inp, scriptVars>>

NormLoadGeojson ==
    /\ stage = "loaded"
    /\ frame' = [frame EXCEPT !.features = StandardizeFeatures(inp.features)]
    /\ stage' = "indexed"
    /\ UNCHANGED <<inp, scriptVars>>

NormGroupBy ==
    /\ stage = "indexed"
    /\ frame' = [frame EXCEPT !.grouped = GroupByState(frame.df)]
    /\ stage' = "grouped"
    /\ UNCHANGED <<inp, scriptVars>>

NextNorm == NormLoadData \/ NormLoadGeojson \/ NormGroupBy

SpecNorm == InitNorm /\ [][NextNorm]_vars

\* What the specification calls the canonical region key of a source name:
\* trimmed, lower-cased, then looked up in the alias table.
TrimmedLower(name) == Lower(Strip(name))

CanonicalKey(name) ==
    CASE TrimmedLower(name) = AndamanSource -> AndamanTarget
      [] TrimmedLower(name) = DadraSource -> DadraTarget
      [] OTHER -> TrimmedLower(name)

IsExampleInput ==
    /\ inp.table[1].States = AndamanAndNicobar
    /\ inp.table[2].States = Karnataka

\* C3: once load_data has returned, every State value is the canonical region
\* key of its source name (no upper-case letter, no surrounding whitespace,
\* aliases applied) and the amounts are untouched; the rows "Andaman and
\* Nicobar"/500 and "Karnataka"/1500 group into exactly the two rows
\* "andaman & nicobar islands"/500 and "karnataka"/1500.
C3_CanonicalRegionKeys ==
    /\ stage \in {"loaded", "indexed", "grouped"} =>
          /\ Len(frame.df) = Len(inp.table)
          /\ \A i \in 1..Len(frame.df) :
                LET key == frame.df[i].State IN
                /\ key = CanonicalKey(inp.table[i].States)
                /\ \A j \in 1..Len(key) : \A u \in 1..26 : key[j] # UpperCase[u]
                /\ key # <<>> => key[1] \notin Whitespace /\ key[Len(key)] \notin Whitespace
                /\ key \notin {AndamanSource, DadraSource}
                /\ frame.df[i].Amount = inp.table[i].Amount
    /\ stage = "grouped" /\ IsExampleInput =>
          frame.grouped = <<[State |-> AndamanTarget, Amount |-> 500, Count |-> 1],
                            [State |-> Lower(Karnataka), Amount |-> 1500, Count |-> 1]>>

C3_Witness == stage = "grouped" /\ IsExampleInput

\* C4: a boundary feature and a table row carrying the same source name get
\* the same region key.
C4_SameKeyBothSides ==
    stage \in {"indexed", "grouped"} =>
        \A i \in 1..Len(frame.df) :
            inp.features[i].NAME_1 = inp.table[i].States =>
                frame.features[i].State_Name = frame.df[i].State

-----------------------------------------------------------------------------
(* The period filter on its own (the tr_slice of Case Study 1, 196-198).   *)

MaxFilterRows == 3

StateA == <<"a">>
StateB == <<"b">>
StateC == <<"c">>

FilterYears == {2022, 2023}
FilterQuarters == {1, 2, 4}

FilterRows ==
    [State : {StateA}, Years : FilterYears, Quarter : FilterQuarters, Dim : {<<"P">>},
     Amount : {1, 2}, Count : {1}]

TablesOver(rows, maxLen) == UNION {[1..n -> rows] : n \in 0..maxLen}

\* Lines 196-198: tr_slice for a selected year and quarter.
TrSlice(df, selected_year, selected_quarter) ==
    IF ~IsEmpty(df) THEN FilterByPeriod(df, selected_year, selected_quarter)
    ELSE EmptyFrame

InitFilter ==
    /\ ScriptIdle
    /\ \E t \in TablesOver(FilterRows, MaxFilterRows), y \in FilterYears, q \in FilterQuarters :
          inp = [table |-> t, year |-> y, quarter |-> q]
    /\ frame = <<>>
    /\ stage = "start"

FilterSlice ==
    /\ stage = "start"
    /\ frame' = TrSlice(inp.table, inp.year, inp.quarter)
    /\ stage' = "sliced"
    /\ UNCHANGED <<inp, scriptVars>>

NextFilter == FilterSlice

SpecFilter == InitFilter /\ [][NextFilter]_vars

InPeriod(r, year, quarter) == r.Years = year /\ r.Quarter = quarter

\* xs is ys with some rows left out: same rows, same order.
IsSubsequenceAt(xs, ys, f) ==
    /\ \A k \in 1..Len(xs) : xs[k] = ys[f[k]]
    /\ \A k, l \in 1..Len(xs) : k < l => f[k] < f[l]

PeriodRow(y, q) ==
    [State |-> StateA, Years |-> y, Quarter |-> q, Dim |-> <<"P">>, Amount |-> 1, Count |-> 1]

IsFilterExample ==
    /\ inp.table = <<PeriodRow(2022, 4), PeriodRow(2023, 1), PeriodRow(2023, 2)>>
    /\ inp.year = 2023 /\ inp.quarter = 2

\* C10: the period filter returns exactly the rows whose Years and Quarter
\* equal the selected ones, unchanged and in their order, and the empty frame
\* when none matches; (2023, 2) over rows in 2022Q4, 2023Q1, 2023Q2 returns
\* the 2023Q2 row only.
C10_FilterByPeriodExact ==
    stage = "sliced" =>
        /\ \A k \in 1..Len(frame) : InPeriod(frame[k], inp.year, inp.quarter)
        /\ Len(frame) =
             Cardinality({i \in 1..Len(inp.table) :
                             InPeriod(inp.table[i], inp.year, inp.quarter)})
        /\ \E f \in [1..Len(frame) -> 1..Len(inp.table)] :
              IsSubsequenceAt(frame, inp.table, f)
        /\ IsFilterExample => frame = <<PeriodRow(2023, 2)>>

C10_Witness == stage = "sliced" /\ IsFilterExample

-----------------------------------------------------------------------------
(* The per-state aggregate on its own (tr_map, 202-205; Home, 115-118).    *)

MaxGroupRows == 3

GroupRows ==
    [State : {StateA, StateB, StateC}, Years : {2023}, Quarter : {1}, Dim : {<<"P">>},
     Amount : {0, 500, 1500}, Count : {1, 2}]

InitGroup ==
    /\ ScriptIdle
    /\ \E t \in TablesOver(GroupRows, MaxGroupRows) : inp = [table |-> t]
    /\ frame = <<>>
    /\ stage = "start"

GroupTrMap ==
    /\ stage = "start"
    /\ frame' = GroupByState(inp.table)
    /\ stage' = "grouped"
    /\ UNCHANGED <<inp, scriptVars>>

NextGroup == GroupTrMap

SpecGroup == InitGroup /\ [][NextGroup]_vars

\* The sum of column col over the rows at the positions S of df.
RECURSIVE ColumnTotal(_, _, _)
ColumnTotal(df, col, S) ==
    IF S = {} THEN 0
    ELSE LET i == CHOOSE i \in S : TRUE IN df[i][col] + ColumnTotal(df, col, S \ {i})

\* C6: grouping by a dimension and summing gives exactly one row per distinct
\* dimension value, and each measure's total over the output rows is its
\* total over the input rows.
C6_GroupSumConserves ==
    stage = "grouped" =>
        LET keysIn == {inp.table[i].State : i \in 1..Len(inp.table)} IN
        /\ Len(frame) = Cardinality(keysIn)
        /\ {frame[k].State : k \in 1..Len(frame)} = keysIn
        /\ \A k, l \in 1..Len(frame) : frame[k].State = frame[l].State => k = l
        /\ ColumnTotal(frame, "Amount", 1..Len(frame))
             = ColumnTotal(inp.table, "Amount", 1..Len(inp.table))
        /\ ColumnTotal(frame, "Count", 1..Len(frame))
             = ColumnTotal(inp.table, "Count", 1..Len(inp.table))

C6_Witness ==
    /\ stage = "grouped"
    /\ Len(inp.table) = 3
    /\ Len(frame) = 2
    /\ \E k \in 1..2 : frame[k].Amount = 2000

-----------------------------------------------------------------------------
(* The top-N cuts on their own: the ten largest states of tr_map (243) and *)
(* the five largest payment types of type_summary (228-230).               *)

TopStatesN == 10
TopTypesN == 5

MaxStates == 11
MaxTypes == 6

\* A grouped frame (unique, ascending keys) holding the given measure values.
GroupedFrame(values) ==
    [i \in 1..Len(values) |->
        [State |-> <<LowerCase[i]>>, Dim |-> <<LowerCase[i]>>,
         Amount |-> values[i], Count |-> values[i]]]

InitTopN ==
    /\ ScriptIdle
    /\ \/ \E v \in TablesOver({1, 2}, MaxStates) :
             inp = [name |-> "tr_map", table |-> GroupedFrame(v)]
       \/ \E v \in TablesOver({1, 2, 3}, MaxTypes) :
             inp = [name |-> "type_summary", table |-> GroupedFrame(v)]
    /\ frame = <<>>
    /\ stage = "start"

\* Line 243: state_summary = tr_map.nlargest(10, "Transaction_amount")
TopStates ==
    /\ stage = "start" /\ inp.name = "tr_map"
    /\ frame' = NLargest(TopStatesN, inp.table, "Amount")
    /\ stage' = "state_summary"
    /\ UNCHANGED <<inp, scriptVars>>

\* Lines 228-230: type_summary = ... .nlargest(5, "Transaction_count")
TopTypes ==
    /\ stage = "start" /\ inp.name = "type_summary"
    /\ frame' = NLargest(TopTypesN, inp.table, "Count")
    /\ stage' = "type_summary"
    /\ UNCHANGED <<inp, scriptVars>>

NextTopN == TopStates \/ TopTypes

SpecTopN == InitTopN /\ [][NextTopN]_vars

\* The position in the input of an output row (the keys are unique).
PositionOf(r) == CHOOSE i \in 1..Len(inp.table) : inp.table[i].State = r.State

\* C7: the top-N cut has min(n, rows) rows, all of them rows of the input,
\* in descending order of the column; no row left out is larger than a row
\* kept; rows of equal value keep their original relative order.
C7_TopNSortedStable ==
    stage \in {"state_summary", "type_summary"} =>
        LET n == IF stage = "state_summary" THEN TopStatesN ELSE TopTypesN
            col == IF stage = "state_summary" THEN "Amount" ELSE "Count"
            t == inp.table
            kept == {PositionOf(frame[k]) : k \in 1..Len(frame)}
        IN  /\ Len(frame) = IF n <= Len(t) THEN n ELSE Len(t)
            /\ \A k \in 1..Len(frame) :
                  \E i \in 1..Len(t) : t[i] = frame[k]
            /\ Cardinality(kept) = Len(frame)
            /\ \A k, l \in 1..Len(frame) : k < l => frame[k][col] >= frame[l][col]
            /\ \A i \in (1..Len(t)) \ kept : \A k \in 1..Len(frame) :
                  t[i][col] <= frame[k][col]
            /\ \A k, l \in 1..Len(frame) :
                  k < l /\ frame[k][col] = frame[l][col]
                      => PositionOf(frame[k]) < PositionOf(frame[l])

C7_Witness ==
    /\ stage = "state_summary"
    /\ Len(inp.table) > TopStatesN
    /\ Len(frame) = TopStatesN
    /\ \E k, l \in 1..Len(frame) : k < l /\ frame[k].Amount = frame[l].Amount
    /\ \E k \in 1..Len(frame) : frame[k].Amount > frame[Len(frame)].Amount

-----------------------------------------------------------------------------
(* The growth analysis of Case Study 4 on its own (374-378).               *)

MaxGrowthRows == 3

GrowthRows ==
    [State : {StateA}, Years : {2023}, Quarter : {1, 2, 3}, Dim : {<<"P">>},
     Amount : {0, 90, 100, 150}, Count : {1}]
    \cup
    [State : {StateB}, Years : {2022, 2023}, Quarter : {1, 2}, Dim : {<<"P">>},
     Amount : {0, 100}, Count : {1}]

InitGrowth ==
    /\ ScriptIdle
    /\ \E t \in TablesOver(GrowthRows, MaxGrowthRows) \ {<<>>} :
       \E i \in 1..Len(t) :
          inp = [table |-> t, year |-> t[i].Years]
    /\ frame = <<>>
    /\ stage = "start"

\* Lines 374-378, map_tr_df not empty, selected_year one of its years.
GrowthAnalysis ==
    /\ stage = "start"
    /\ frame' = GrowthData(inp.table, inp.year)
    /\ stage' = "growth_data"
    /\ UNCHANGED <<inp, scriptVars>>

NextGrowth == GrowthAnalysis

SpecGrowth == InitGrowth /\ [][NextGrowth]_vars

\* The rows of the selected year of one state and quarter; the state's quarters.
RowsOf(s, q) ==
    {i \in 1..Len(inp.table) :
        /\ inp.table[i].Years = inp.year
        /\ inp.table[i].State = s
        /\ inp.table[i].Quarter = q}

QuartersOf(s) == {q \in 1..4 : RowsOf(s, q) # {}}

Total(s, q) == ColumnTotal(inp.table, "Amount", RowsOf(s, q))

IsFirstQuarter(s, q) == \A p \in QuartersOf(s) : q <= p

PrecedingQuarter(s, q) ==
    CHOOSE p \in QuartersOf(s) : p < q /\ \A r \in QuartersOf(s) : r < q => r <= p

GrowthRowsFor(s, q) ==
    {k \in 1..Len(frame) : frame[k].State = s /\ frame[k].Quarter = q}

\* A float equals the exact value (curr - prev) / prev * 100.
IsGrowthOf(x, prev, curr) ==
    /\ x.kind = "num" /\ x.den # 0
    /\ x.num * prev = (curr - prev) * 100 * x.den

IsWhole(x, n) == x.kind = "num" /\ x.den # 0 /\ x.num = n * x.den

IsGrowthExample ==
    /\ inp.year = 2023
    /\ \A i \in 1..Len(inp.table) : inp.table[i].State = StateA
    /\ Total(StateA, 1) = 100 /\ Total(StateA, 2) = 150 /\ Total(StateA, 3) = 90
    /\ Len(inp.table) = 3

\* C5 as claimed: every quarter of a state but its first has a row, and the
\* row's value is (curr - prev) / prev * 100.
C5_OnlyFirstPeriodDropped ==
    stage = "growth_data" =>
        \A s \in {StateA, StateB} : \A q \in QuartersOf(s) :
            IF IsFirstQuarter(s, q)
            THEN GrowthRowsFor(s, q) = {}
            ELSE /\ Cardinality(GrowthRowsFor(s, q)) = 1
                 /\ \A k \in GrowthRowsFor(s, q) :
                       IsGrowthOf(frame[k].Growth_Percentage,
                                  Total(s, PrecedingQuarter(s, q)), Total(s, q))

\* C5 as amended: the first quarter of a state has no row; a later quarter
\* whose own total and whose preceding total are both zero has no row either
\* (0/0 is NaN and dropna removes it); every other quarter has exactly one
\* row, worth (curr - prev) / prev * 100 when prev is not zero and infinite
\* when prev is zero; no other row exists.  Totals [100, 150, 90] over
\* quarters [1, 2, 3] give rows for quarters 2 and 3 worth 50 and -40.
C5_GrowthRowsExceptFirstAndZeroOverZero ==
    stage = "growth_data" =>
        /\ \A k \in 1..Len(frame) : frame[k].Quarter \in QuartersOf(frame[k].State)
        /\ \A s \in {StateA, StateB} : \A q \in QuartersOf(s) :
              IF IsFirstQuarter(s, q)
              THEN GrowthRowsFor(s, q) = {}
              ELSE LET prev == Total(s, PrecedingQuarter(s, q))
                       curr == Total(s, q)
                   IN  IF prev = 0 /\ curr = 0
                       THEN GrowthRowsFor(s, q) = {}
                       ELSE /\ Cardinality(GrowthRowsFor(s, q)) = 1
                            /\ \A k \in GrowthRowsFor(s, q) :
                                  /\ frame[k].Amount = curr
                                  /\ IF prev # 0
                                     THEN IsGrowthOf(frame[k].Growth_Percentage, prev, curr)
                                     ELSE frame[k].Growth_Percentage.kind = "inf"
        /\ IsGrowthExample =>
              /\ Len(frame) = 2
              /\ frame[1].Quarter = 2 /\ IsWhole(frame[1].Growth_Percentage, 50)
              /\ frame[2].Quarter = 3 /\ IsWhole(frame[2].Growth_Percentage, -40)

C5_Witness == stage = "growth_data" /\ IsGrowthExample

-----------------------------------------------------------------------------
(* The script: what it reads                                               *)

\* The tables in the order lines 65-73 load them.
TableNames ==
    <<"aggregated_transaction", "aggregated_insurance", "aggregated_user",
      "map_transaction", "map_insurance", "map_user",
      "top_transaction", "top_insurance", "top_user">>

Tables == {TableNames[i] : i \in 1..Len(TableNames)}

IndexOf(t) == CHOOSE i \in 1..Len(TableNames) : TableNames[i] = t

\* The cache key of load_geojson() beside those of load_data(table_name).
GeojsonKey == "load_geojson"

Src(name, y, q, dim, amount, count) ==
    [States |-> name, Years |-> y, Quarter |-> q, Dim |-> dim,
     Amount |-> amount, Count |-> count]

AndamanIslands == <<"A","n","d","a","m","a","n"," ","&"," ","N","i","c","o","b","a","r"," ","I","s","l","a","n","d","s">>

\* The contents a table of the database may have.
TableChoices(t) ==
    CASE t = "aggregated_transaction" ->
           { <<>>,
             << Src(Karnataka, 2022, 4, <<"P">>, 700, 3),
                Src(Karnataka, 2023, 1, <<"M">>, 1500, 7),
                Src(AndamanAndNicobar, 2023, 1, <<"P">>, 500, 5),
                Src(Karnataka, 2023, 1, <<"P">>, 100, 1) >> }
      [] t = "aggregated_user" ->
           { << Src(Karnataka, 2023, 1, <<"X">>, 0, 5) >>,
             << Src(Karnataka, 2022, 4, <<"X">>, 0, 5),
                Src(Karnataka, 2023, 2, <<"Y">>, 0, 6) >> }
      [] t = "map_user" ->
           { << Src(Karnataka, 2023, 1, <<"D">>, 10, 20) >>,
             << Src(Karnataka, 2022, 4, <<"D">>, 10, 20),
                Src(AndamanAndNicobar, 2022, 4, <<"E">>, 4, 8) >> }
      [] t = "map_transaction" ->
           { << Src(Karnataka, 2022, 4, <<"D">>, 90, 1),
                Src(Karnataka, 2023, 1, <<"D">>, 100, 1),
                Src(Karnataka, 2023, 2, <<"D">>, 150, 2) >> }
      [] t = "aggregated_insurance" ->
           { << Src(Karnataka, 2022, 2, <<"I">>, 30, 1),
                Src(AndamanAndNicobar, 2023, 1, <<"I">>, 60, 3),
                Src(Karnataka, 2023, 1, <<"I">>, 40, 2) >> }
      [] OTHER ->
           { << Src(Karnataka, 2023, 1, <<"D">>, 40, 2) >> }

\* The contents the boundary file may have: unreadable, or a feature list.
GeofileChoices ==
    { [readable |-> FALSE, features |-> <<>>],
      [readable |-> TRUE,
       features |-> << [isstr |-> TRUE, NAME_1 |-> AndamanIslands],
                       [isstr |-> TRUE, NAME_1 |-> Karnataka] >>],
      [readable |-> TRUE,
       features |-> << [isstr |-> TRUE, NAME_1 |-> Karnataka],
                       [isstr |-> FALSE, NAME_1 |-> <<>>] >>] }

-----------------------------------------------------------------------------
(* The script: load_data, get_db_engine, load_geojson and their caches     *)

NoEntry == [set |-> FALSE, value |-> <<>>, messages |-> <<>>]
Entry(value, messages) == [set |-> TRUE, value |-> value, messages |-> messages]

Error(text, arg) == [kind |-> "error", text |-> text, arg |-> arg]

\* A faulty variant of IsCached: the memo is never consulted.
NeverCached(c, key) == FALSE

\* st.cache_data / st.cache_resource: is the call's result stored?
IsCached(c, key) == c[key].set

\* A faulty variant of LoadDataBody: the try block has no except clause.
LoadDataBodyNoExcept(table_name, engineOk, tryOk, rows) ==
    IF ~engineOk
    THEN [raised |-> FALSE, df |-> EmptyFrame,
          messages |-> <<Error("Database connection failed for", table_name)>>]
    ELSE IF ~tryOk
    THEN [raised |-> TRUE, df |-> EmptyFrame, messages |-> <<>>]
    ELSE [raised |-> FALSE, df |-> NormalizeFrame(rows), messages |-> <<>>]

\* The body of load_data (45-62) once get_db_engine has answered: engineOk
\* says the engine is not None, tryOk that nothing in the try block raised.
LoadDataBody(table_name, engineOk, tryOk, rows) ==
    IF ~engineOk
    THEN [raised |-> FALSE, df |-> EmptyFrame,
          messages |-> <<Error("Database connection failed for", table_name)>>]
    ELSE IF ~tryOk
    THEN [raised |-> FALSE, df |-> EmptyFrame,
          messages |-> <<Error("Failed to load data from", table_name)>>]
    ELSE [raised |-> FALSE, df |-> NormalizeFrame(rows), messages |-> <<>>]

\* The body of load_geojson (25-40).
LoadGeojsonBody(file) ==
    IF file.readable
    THEN [value |-> StandardizeFeatures(file.features), messages |-> <<>>]
    ELSE [value |-> <<>>, messages |-> <<Error("Failed to load GeoJSON data", GeojsonKey)>>]

Init ==
    /\ PipeIdle
    /\ \E tr \in TableChoices("aggregated_transaction"),
          us \in TableChoices("aggregated_user"),
          mu \in TableChoices("map_user") :
          db = [t \in Tables |->
                   CASE t = "aggregated_transaction" -> tr
                     [] t = "aggregated_user" -> us
                     [] t = "map_user" -> mu
                     [] OTHER -> CHOOSE c \in TableChoices(t) : TRUE]
    /\ geofile \in GeofileChoices
    /\ engine = "unset"
    /\ cache = [k \in Tables \cup {GeojsonKey} |-> NoEntry]
    /\ queries = [t \in Tables |-> 0]
    /\ first = [t \in Tables |-> [called |-> FALSE]]
    /\ dfs = <<>>
    /\ geojson_data = <<>>
    /\ pc = "load"
    /\ ui = [page |-> "", case_study |-> "", assigned |-> FALSE,
             selected_year |-> 0, selected_quarter |-> 0]
    /\ out = <<>>

\* One call load_data(table_name) of lines 65-73, through st.cache_data; a
\* miss runs the body, which calls get_db_engine through st.cache_resource.
\* connects says whether create_engine succeeds, tryOk whether the try block
\* of load_data runs to its end.
LoadData ==
    /\ pc = "load"
    /\ Len(dfs) < Len(TableNames)
    /\ LET t == TableNames[Len(dfs) + 1] IN
       IF IsCached(cache, t)
       THEN /\ dfs' = Append(dfs, cache[t].value)
            /\ out' = out \o cache[t].messages
            /\ UNCHANGED <<engine, cache, queries, first, pc>>
       ELSE \E connects, tryOk \in BOOLEAN :
            LET engineMsgs == IF engine = "unset" /\ ~connects
                              THEN <<Error("Database connection failed", "")>>
                              ELSE <<>>
                engineNow == IF engine = "unset"
                             THEN (IF connects THEN "engine" ELSE "none")
                             ELSE engine
                r == LoadDataBody(t, engineNow = "engine", tryOk, db[t])
            IN  /\ engine' = engineNow
                /\ queries' = [queries EXCEPT ![t] =
                                  IF engineNow = "engine" THEN @ + 1 ELSE @]
                /\ IF first[t].called THEN first' = first
                   ELSE first' = [first EXCEPT ![t] =
                           [called |-> TRUE, raised |-> r.raised, df |-> r.df,
                            messages |-> r.messages,
                            engineOk |-> engineNow = "engine",
                            tryOk |-> engineNow = "engine" /\ tryOk]]
                /\ IF r.raised
                   THEN /\ out' = Append(out \o engineMsgs, [kind |-> "exception", block |-> t])
                        /\ pc' = "done"
                        /\ UNCHANGED <<cache, dfs>>
                   ELSE /\ cache' = [cache EXCEPT ![t] = Entry(r.df, r.messages)]
                        /\ dfs' = Append(dfs, r.df)
                        /\ out' = out \o engineMsgs \o r.messages
                        /\ pc' = pc
    /\ UNCHANGED <<db, geofile, geojson_data, ui, pipeVars>>

\* Line 76: geojson_data = load_geojson(), through st.cache_data.
LoadGeojson ==
    /\ pc = "load"
    /\ Len(dfs) = Len(TableNames)
    /\ IF IsCached(cache, GeojsonKey)
       THEN /\ geojson_data' = cache[GeojsonKey].value
            /\ out' = out \o cache[GeojsonKey].messages
            /\ cache' = cache
       ELSE LET r == LoadGeojsonBody(geofile) IN
            /\ geojson_data' = r.value
            /\ out' = out \o r.messages
            /\ cache' = [cache EXCEPT ![GeojsonKey] = Entry(r.value, r.messages)]
    /\ pc' = "sidebar"
    /\ UNCHANGED <<db, geofile, engine, queries, first, dfs, ui, pipeVars>>

\* The module global a table was loaded into.
Df(t) == dfs[IndexOf(t)]

-----------------------------------------------------------------------------
(* The script: what a pass emits                                           *)

DefaultYear == 2023
DefaultQuarter == 1
ZmaxFallback == 1000

Home == "Home"
CaseStudies == "Case Studies"
CS1 == "Decoding Transaction Dynamics"
CS2 == "Device Dominance & User Engagement"
CS3 == "Insurance Penetration & Growth"
CS4 == "Transaction Analysis for Expansion"
CS5 == "User Engagement & Growth Strategy"

Metric(label, total) == [kind |-> "metric", block |-> label, total |-> total]
Warning(block) == [kind |-> "warning", block |-> block]
Exception(block) == [kind |-> "exception", block |-> block]
Chart(block, chart, data) == [kind |-> "chart", block |-> block, chart |-> chart, data |-> data]

\* What go.Choropleth draws: the locations that are the featureidkey
\* (properties.State_Name) of a feature of the geojson (120-124).
PlottedRegions(locations, geojson) ==
    {locations[i] : i \in {j \in 1..Len(locations) :
        \E f \in 1..Len(geojson) : geojson[f].State_Name = locations[j]}}

\* go.Choropleth(...) of a per-state aggregate: locations, z = amount / unit,
\* zmax = max / unit, or the fallback when the aggregate is empty.
Choropleth(block, df, geojson, unit) ==
    [kind |-> "chart", block |-> block, chart |-> "choropleth", data |-> df,
     locations |-> [i \in 1..Len(df) |-> df[i].State],
     unit |-> unit,
     zmax |-> IF ~IsEmpty(df) THEN [value |-> MaxAmount(df), unit |-> unit]
              ELSE [value |-> ZmaxFallback, unit |-> 1],
     plotted |-> PlottedRegions([i \in 1..Len(df) |-> df[i].State], geojson)]

\* sorted(df["Years"].unique()) if not df.empty else [2023]
YearOptions(df) ==
    IF ~IsEmpty(df) THEN SortInts({df[i].Years : i \in 1..Len(df)}) ELSE <<DefaultYear>>

\* A faulty variant of QuarterOptions: the quarters of every year of the table.
QuarterOptionsAllYears(df, selected_year) ==
    IF ~IsEmpty(df)
    THEN SortInts({df[i].Quarter : i \in 1..Len(df)})
    ELSE <<DefaultQuarter>>

\* sorted(df[df["Years"] == selected_year]["Quarter"].unique()) if not df.empty else [1]
QuarterOptions(df, selected_year) ==
    IF ~IsEmpty(df)
    THEN SortInts({YearIs(df, selected_year)[i].Quarter :
                      i \in 1..Len(YearIs(df, selected_year))})
    ELSE <<DefaultQuarter>>

Options(seq) == {seq[i] : i \in 1..Len(seq)}

\* A faulty variant of QuickStats: the totals count only the rows whose state has a
\* boundary feature.
QuickStatsMatchedOnly(agg_tr_df, top_user_df) ==
    LET Matched(r) == \E f \in 1..Len(geojson_data) : geojson_data[f].State_Name = r.State
        m == SelectSeq(agg_tr_df, Matched)
    IN  << Metric("Total Transactions", IF ~IsEmpty(agg_tr_df) THEN SumCount(m) ELSE 0),
           Metric("Total Amount", IF ~IsEmpty(agg_tr_df) THEN SumAmount(m) ELSE 0),
           Metric("Registered Users", IF ~IsEmpty(top_user_df) THEN SumAmount(top_user_df) ELSE 0) >>

\* Lines 97-107: the three Quick Stats totals.
QuickStats(agg_tr_df, top_user_df) ==
    << Metric("Total Transactions", IF ~IsEmpty(agg_tr_df) THEN SumCount(agg_tr_df) ELSE 0),
       Metric("Total Amount", IF ~IsEmpty(agg_tr_df) THEN SumAmount(agg_tr_df) ELSE 0),
       Metric("Registered Users", IF ~IsEmpty(top_user_df) THEN SumAmount(top_user_df) ELSE 0) >>

MaxOf(S) == CHOOSE x \in S : \A y \in S : y <= x

\* Lines 112-118: the per-state aggregate of the latest period.
LatestYear(df) == MaxOf({df[i].Years : i \in 1..Len(df)})
LatestQuarter(df) ==
    MaxOf({YearIs(df, LatestYear(df))[i].Quarter : i \in 1..Len(YearIs(df, LatestYear(df)))})
HomeFilteredDf(df) ==
    GroupByState(FilterByPeriod(df, LatestYear(df), LatestQuarter(df)))

\* Lines 110-156: the India Transaction Heatmap.
HomeHeatmap(agg_tr_df, geojson) ==
    IF ~IsEmpty(agg_tr_df)
    THEN <<Choropleth("home_heatmap", HomeFilteredDf(agg_tr_df), geojson, 1000000)>>
    ELSE <<Warning("home_heatmap")>>

\* Lines 159-174: Transaction Trend Over Time.
HomeTrend(agg_tr_df) ==
    IF ~IsEmpty(agg_tr_df)
    THEN <<Chart("home_trend", "line", GroupByPeriod(agg_tr_df))>>
    ELSE <<Warning("home_trend")>>

\* Lines 200-223: the choropleth of Case Study 1.
Cs1Map(tr_slice, geojson) ==
    IF ~IsEmpty(tr_slice)
    THEN <<Choropleth("cs1_map", GroupByState(tr_slice), geojson, 1000000)>>
    ELSE <<Warning("cs1_map")>>

\* Lines 226-238: Payment Type Distribution.
Cs1Types(tr_slice) ==
    IF ~IsEmpty(tr_slice)
    THEN LET type_summary == NLargest(TopTypesN, GroupByDim(tr_slice), "Count")
         IN  IF ~IsEmpty(type_summary)
             THEN <<Chart("cs1_types", "pie", type_summary)>>
             ELSE <<Warning("cs1_types")>>
    ELSE <<Warning("cs1_types")>>

\* Lines 241-250: Top States by Transaction Amount.  tr_map is bound only
\* when line 202 ran, that is when tr_slice was not empty at line 201.
Cs1TopStates(tr_slice) ==
    LET trMapBound == ~IsEmpty(tr_slice)
    IN  IF ~IsEmpty(tr_slice)
        THEN IF trMapBound
             THEN <<Chart("cs1_top_states", "bar",
                          NLargest(TopStatesN, GroupByState(tr_slice), "Amount"))>>
             ELSE <<Exception("cs1_top_states")>>
        ELSE <<Warning("cs1_top_states")>>

\* Lines 263-273: Device Brand Usage.
Cs2Brands(agg_user_df, year, quarter) ==
    IF ~IsEmpty(agg_user_df)
    THEN <<Chart("cs2_brands", "pie",
                 NLargest(TopTypesN, GroupByDim(FilterByPeriod(agg_user_df, year, quarter)), "Count"))>>
    ELSE <<Warning("cs2_brands")>>

\* Lines 276-286: App Opens by District.
Cs2AppOpens(map_user_df, year, quarter) ==
    IF ~IsEmpty(map_user_df)
    THEN <<Chart("cs2_app_opens", "bar",
                 NLargest(TopStatesN, GroupByDim(FilterByPeriod(map_user_df, year, quarter)), "Count"))>>
    ELSE <<Warning("cs2_app_opens")>>

\* Lines 298-323 and 345-370: the heatmaps of Case Studies 3 and 4.
PeriodMap(block, df, year, quarter, geojson, unit) ==
    IF ~IsEmpty(df)
    THEN <<Choropleth(block, GroupByState(FilterByPeriod(df, year, quarter)), geojson, unit)>>
    ELSE <<Warning(block)>>

\* Lines 326-333: Insurance Growth Trend.
Cs3Trend(agg_insur_df, year) ==
    IF ~IsEmpty(agg_insur_df)
    THEN <<Chart("cs3_trend", "line", GroupByQuarter(YearIs(agg_insur_df, year)))>>
    ELSE <<Warning("cs3_trend")>>

\* Lines 373-382: Transaction Growth Analysis.
Cs4Growth(map_tr_df, year) ==
    IF ~IsEmpty(map_tr_df)
    THEN <<Chart("cs4_growth", "bar", GrowthData(map_tr_df, year))>>
    ELSE <<Warning("cs4_growth")>>

\* Lines 396-424 (User Heatmap) and 427-442 (Engagement Analysis), which
\* read selected_year and selected_quarter: sel.assigned says whether these
\* names were bound earlier in the pass.
UserBlock(block, chart, map_user_df, geojson, sel) ==
    IF ~IsEmpty(map_user_df)
    THEN IF ~sel.assigned
         THEN <<Exception(block)>>
         ELSE LET filtered_df == FilterByPeriod(map_user_df, sel.selected_year, sel.selected_quarter)
              IN  IF ~IsEmpty(filtered_df)
                  THEN IF chart = "choropleth"
                       THEN <<Choropleth(block, GroupByState(filtered_df), geojson, 1000)>>
                       ELSE <<Chart(block, chart, GroupByState(filtered_df))>>
                  ELSE <<Warning(block)>>
    ELSE <<Warning(block)>>

-----------------------------------------------------------------------------
(* The script: the sidebar and the pages                                   *)

\* An uncaught exception ends the pass: what comes after it is not emitted.
RECURSIVE UpToException(_)
UpToException(elements) ==
    IF elements = <<>> THEN <<>>
    ELSE IF Head(elements).kind = "exception" THEN <<Head(elements)>>
    ELSE <<Head(elements)>> \o UpToException(Tail(elements))

\* Lines 80 and 177-183: the sidebar radio and the case-study selectbox.
Navigate ==
    /\ pc = "sidebar"
    /\ \/ /\ ui' = [ui EXCEPT !.page = Home]
          /\ pc' = "home"
       \/ \E cs \in {CS1, CS2, CS3, CS4, CS5} :
          /\ ui' = [ui EXCEPT !.page = CaseStudies, !.case_study = cs]
          /\ pc' = "case_study"
    /\ UNCHANGED <<db, geofile, engine, cache, queries, first, dfs, geojson_data,
                   out, pipeVars>>

\* Lines 82-174: the Home page.
RenderHome ==
    /\ pc = "home"
    /\ out' = out \o QuickStats(Df("aggregated_transaction"), Df("top_user"))
                  \o HomeHeatmap(Df("aggregated_transaction"), geojson_data)
                  \o HomeTrend(Df("aggregated_transaction"))
    /\ pc' = "done"
    /\ UNCHANGED <<db, geofile, engine, cache, queries, first, dfs, geojson_data,
                   ui, pipeVars>>

\* The two selectboxes of a case study over its driving table: the year is
\* one of the year options, the quarter one of that year's quarter options.
Select(df, year, quarter) ==
    /\ year \in Options(YearOptions(df))
    /\ quarter \in Options(QuarterOptions(df, year))
    /\ ui' = [ui EXCEPT !.assigned = TRUE, !.selected_year = year,
                        !.selected_quarter = quarter]

\* A case study's own blocks, then what stands at the indentation of the
\* page and so runs after every case study: the User Heatmap (395-424) and
\* the Engagement Analysis (426-442).
RenderCaseStudy(elements) ==
    /\ out' = out \o UpToException(
                  elements
                  \o UserBlock("user_heatmap", "choropleth", Df("map_user"), geojson_data, ui')
                  \o UserBlock("engagement", "bar", Df("map_user"), geojson_data, ui'))
    /\ pc' = "done"
    /\ UNCHANGED <<db, geofile, engine, cache, queries, first, dfs, geojson_data,
                   pipeVars>>

\* Lines 188-250, then 395-442.
CaseStudy1 ==
    /\ pc = "case_study" /\ ui.case_study = CS1
    /\ \E year \in FilterYears \cup {DefaultYear}, quarter \in 1..4 :
          /\ Select(Df("aggregated_transaction"), year, quarter)
          /\ LET tr_slice == TrSlice(Df("aggregated_transaction"), year, quarter)
             IN  RenderCaseStudy(Cs1Map(tr_slice, geojson_data)
                                 \o Cs1Types(tr_slice) \o Cs1TopStates(tr_slice))

\* Lines 254-286, then 395-442.
CaseStudy2 ==
    /\ pc = "case_study" /\ ui.case_study = CS2
    /\ \E year \in FilterYears \cup {DefaultYear}, quarter \in 1..4 :
          /\ Select(Df("aggregated_user"), year, quarter)
          /\ RenderCaseStudy(Cs2Brands(Df("aggregated_user"), year, quarter)
                             \o Cs2AppOpens(Df("map_user"), year, quarter))

\* Lines 289-333, then 395-442.
CaseStudy3 ==
    /\ pc = "case_study" /\ ui.case_study = CS3
    /\ \E year \in FilterYears \cup {DefaultYear}, quarter \in 1..4 :
          /\ Select(Df("aggregated_insurance"), year, quarter)
          /\ RenderCaseStudy(PeriodMap("cs3_map", Df("aggregated_insurance"), year, quarter,
                                       geojson_data, 1000)
                             \o Cs3Trend(Df("aggregated_insurance"), year))

\* Lines 336-382, then 395-442.
CaseStudy4 ==
    /\ pc = "case_study" /\ ui.case_study = CS4
    /\ \E year \in FilterYears \cup {DefaultYear}, quarter \in 1..4 :
          /\ Select(Df("map_transaction"), year, quarter)
          /\ RenderCaseStudy(PeriodMap("cs4_map", Df("map_transaction"), year, quarter,
                                       geojson_data, 1000000)
                             \o Cs4Growth(Df("map_transaction"), year))

\* Lines 385-393, then 395-442.
CaseStudy5 ==
    /\ pc = "case_study" /\ ui.case_study = CS5
    /\ \E year \in FilterYears \cup {DefaultYear}, quarter \in 1..4 :
          /\ Select(Df("map_user"), year, quarter)
          /\ RenderCaseStudy(<<>>)

\* A widget changes: Streamlit runs the script again from the top; the
\* caches live on, the module globals and the page are built anew.
Rerun ==
    /\ pc = "done"
    /\ pc' = "load"
    /\ dfs' = <<>>
    /\ geojson_data' = <<>>
    /\ out' = <<>>
    /\ ui' = [page |-> "", case_study |-> "", assigned |-> FALSE,
              selected_year |-> 0, selected_quarter |-> 0]
    /\ UNCHANGED <<db, geofile, engine, cache, queries, first, pipeVars>>

Next ==
    \/ LoadData \/ LoadGeojson \/ Navigate \/ RenderHome
    \/ CaseStudy1 \/ CaseStudy2 \/ CaseStudy3 \/ CaseStudy4 \/ CaseStudy5
    \/ Rerun

Spec == Init /\ [][Next]_vars

-----------------------------------------------------------------------------
(* Claims about the script *)

\* What a successful load of source rows is: the same rows, the region
\* column holding canonical keys.
IsLoadedFrom(df, rows) ==
    /\ Len(df) = Len(rows)
    /\ \A i \in 1..Len(df) :
          /\ df[i].State = CanonicalKey(rows[i].States)
          /\ df[i].Years = rows[i].Years /\ df[i].Quarter = rows[i].Quarter
          /\ df[i].Dim = rows[i].Dim
          /\ df[i].Amount = rows[i].Amount /\ df[i].Count = rows[i].Count

\* C1: load_data never raises; with the engine unavailable or the query
\* failing it returns an empty table and reports an error naming the table;
\* otherwise it returns the loaded table (and reports nothing).
C1_LoadDataNeverRaises ==
    /\ \A i \in 1..Len(out) : out[i].kind = "exception" => out[i].block \notin Tables
    /\ \A t \in Tables : first[t].called =>
          /\ ~first[t].raised
          /\ (~first[t].engineOk \/ ~first[t].tryOk) =>
                /\ first[t].df = <<>>
                /\ \E m \in 1..Len(first[t].messages) :
                      first[t].messages[m].kind = "error" /\ first[t].messages[m].arg = t
          /\ (first[t].engineOk /\ first[t].tryOk) =>
                /\ IsLoadedFrom(first[t].df, db[t])
                /\ first[t].messages = <<>>

C1_Witness ==
    /\ first["aggregated_transaction"].called
    /\ first["aggregated_transaction"].engineOk
    /\ ~first["aggregated_transaction"].tryOk
    /\ first["aggregated_insurance"].called
    /\ first["aggregated_insurance"].tryOk
    /\ first["aggregated_insurance"].df # <<>>

\* C2: no block fails, and no chart is built from an empty result: a block
\* whose result is empty emits its no-data warning instead.
C2_EmptyResultGivesPlaceholder ==
    \A i \in 1..Len(out) :
        /\ out[i].kind # "exception"
        /\ out[i].kind = "chart" => ~IsEmpty(out[i].data)

\* The rows of the latest period of a frame: the greatest year, and the
\* greatest quarter within it.
LatestRows(df) ==
    {i \in 1..Len(df) : \A j \in 1..Len(df) :
        \/ df[j].Years < df[i].Years
        \/ df[j].Years = df[i].Years /\ df[j].Quarter <= df[i].Quarter}

HasBoundary(key) == \E f \in 1..Len(geojson_data) : geojson_data[f].State_Name = key

HomeHeatmaps == {i \in 1..Len(out) : out[i].kind = "chart" /\ out[i].block = "home_heatmap"}

\* C8: on the Home page the heatmap draws exactly the aggregate's regions
\* that have a boundary feature (one fewer when one key has none), while the
\* aggregate handed to it still holds every region of the latest period with
\* its summed amount, and the Quick Stats totals are the sums over the whole
\* table.
C8_UnmatchedDroppedFromMapOnly ==
    pc = "done" /\ ui.page = Home =>
        LET agg_tr_df == Df("aggregated_transaction")
            latest == LatestRows(agg_tr_df)
            keys == {agg_tr_df[i].State : i \in latest}
            unmatched == {k \in keys : ~HasBoundary(k)}
        IN  /\ \E i \in 1..Len(out) :
                  out[i] = Metric("Total Transactions",
                                  ColumnTotal(agg_tr_df, "Count", 1..Len(agg_tr_df)))
            /\ \E i \in 1..Len(out) :
                  out[i] = Metric("Total Amount",
                                  ColumnTotal(agg_tr_df, "Amount", 1..Len(agg_tr_df)))
            /\ \A i \in 1..Len(out) : out[i].kind = "metric" =>
                  \A j \in 1..Len(out) :
                      out[j].kind = "metric" /\ out[j].block = out[i].block => j = i
            /\ \A h \in HomeHeatmaps :
                  /\ Len(out[h].data) = Cardinality(keys)
                  /\ \A k \in keys : \E r \in 1..Len(out[h].data) :
                        /\ out[h].data[r].State = k
                        /\ out[h].data[r].Amount =
                             ColumnTotal(agg_tr_df, "Amount",
                                         {i \in latest : agg_tr_df[i].State = k})
                  /\ out[h].plotted = keys \ unmatched
                  /\ Cardinality(unmatched) = 1 =>
                        Cardinality(out[h].plotted) = Len(out[h].data) - 1

C8_Witness ==
    /\ pc = "done" /\ ui.page = Home
    /\ \E h \in HomeHeatmaps :
          /\ Len(out[h].data) = 2
          /\ Cardinality(out[h].plotted) = 1
          /\ \E r \in 1..2 : ~HasBoundary(out[h].data[r].State)

\* C9: the data source is queried at most once per table name, and every
\* pass receives, for each table, what the first load of that table returned.
C9_LoadsMemoized ==
    /\ \A t \in Tables : queries[t] <= 1
    /\ \A i \in 1..Len(dfs) :
          first[TableNames[i]].called /\ dfs[i] = first[TableNames[i]].df

\* A later pass (the last table is already cached while the pass has loaded
\* only the first) receiving a loaded table without a second query.
C9_Witness ==
    /\ pc = "load" /\ Len(dfs) = 1
    /\ cache[TableNames[Len(TableNames)]].set
    /\ queries[TableNames[1]] = 1
    /\ dfs[1] # <<>>

\* What the User Heatmap (395-424) and the Engagement Analysis (426-442)
\* emit: their charts and their warnings.
UserBlockElements ==
    {i \in 1..Len(out) :
        /\ out[i].kind \in {"chart", "warning", "exception"}
        /\ out[i].block \in {"user_heatmap", "engagement"}}

\* C11: the Registered-Users heatmap and the App-Opens-vs-Registered-Users
\* bar chart, and their warnings, are emitted only in a pass whose selected
\* case study is "User Engagement & Growth Strategy", and their charts show
\* map_user cut to the year and quarter chosen from map_user's own options.
C11_UserChartsOnlyOnCs5 ==
    \A i \in UserBlockElements :
        /\ ui.case_study = CS5
        /\ out[i].kind = "chart" =>
              /\ ui.selected_year \in Options(YearOptions(Df("map_user")))
              /\ ui.selected_quarter \in
                    Options(QuarterOptions(Df("map_user"), ui.selected_year))
              /\ \A r \in 1..Len(out[i].data) :
                    \E m \in 1..Len(Df("map_user")) :
                        /\ Df("map_user")[m].State = out[i].data[r].State
                        /\ Df("map_user")[m].Years = ui.selected_year
                        /\ Df("map_user")[m].Quarter = ui.selected_quarter

\* The period maps a finished pass has gone through, each with its driving
\* table: the Home heatmap, or the choropleth of Case Study 1, 3 or 4.
PeriodMaps ==
    IF pc # "done" THEN {}
    ELSE IF ui.page = Home
    THEN {[block |-> "home_heatmap", table |-> "aggregated_transaction"]}
    ELSE IF ui.case_study = CS1
    THEN {[block |-> "cs1_map", table |-> "aggregated_transaction"]}
    ELSE IF ui.case_study = CS3
    THEN {[block |-> "cs3_map", table |-> "aggregated_insurance"]}
    ELSE IF ui.case_study = CS4
    THEN {[block |-> "cs4_map", table |-> "map_transaction"]}
    ELSE {}

\* The rows of a table in the period its map shows: the latest period on
\* Home, the selected year and quarter on a case study.
ShownRows(b) ==
    IF b.block = "home_heatmap" THEN LatestRows(Df(b.table))
    ELSE {m \in 1..Len(Df(b.table)) :
             /\ Df(b.table)[m].Years = ui.selected_year
             /\ Df(b.table)[m].Quarter = ui.selected_quarter}

\* C12: for the Home heatmap and the maps of Case Studies 1, 3 and 4, when
\* the driving table is not empty the period shown occurs in the table, the
\* map is drawn (no warning in its place) from an aggregate of at least one
\* row, one per state of the period, and its scale maximum is the greatest
\* plotted amount in the map's unit, never the fallback 1000.
C12_SelectedPeriodOccurs ==
    \A b \in PeriodMaps : ~IsEmpty(Df(b.table)) =>
        /\ ShownRows(b) # {}
        /\ \A i \in 1..Len(out) : ~(out[i].kind = "warning" /\ out[i].block = b.block)
        /\ \E i \in 1..Len(out) :
              /\ out[i].kind = "chart" /\ out[i].block = b.block
              /\ Len(out[i].data) >= 1
              /\ {out[i].data[r].State : r \in 1..Len(out[i].data)}
                    = {Df(b.table)[m].State : m \in ShownRows(b)}
              /\ out[i].zmax.unit = out[i].unit
              /\ \E r \in 1..Len(out[i].data) :
                    out[i].data[r].Amount = out[i].zmax.value
              /\ \A r \in 1..Len(out[i].data) :
                    out[i].data[r].Amount <= out[i].zmax.value
              /\ out[i].zmax # [value |-> ZmaxFallback, unit |-> 1]

\* Case Study 4 showing a period that is neither the first option nor of the
\* latest year, its scale maximum the amount of that period.
C12_Witness ==
    /\ pc = "done" /\ ui.case_study = CS4
    /\ ui.selected_year = 2022 /\ ui.selected_quarter = 4
    /\ \E i \in 1..Len(out) :
          /\ out[i].kind = "chart" /\ out[i].block = "cs4_map"
          /\ out[i].zmax = [value |-> 90, unit |-> 1000000]

====
